---- MODULE Spec2Model ----
(***************************************************************************)
(* Model of lib/SConv.cpp: the transform operation SConvOp::apply, which   *)
(* rewrites one linalg.conv_2d_nchw_fchw into a six-dimensional reduction  *)
(* (linalg.generic), tiles it twice (applyTileTo) and, for the Input       *)
(* Stationary schedule, swaps the two loops of the inner tiling pass       *)
(* (swapInductionVars).                                                    *)
(*                                                                         *)
(* The payload IR is a record [ops, top, next]: ops maps the identifier of *)
(* every live operation to its record, top is the block of the enclosing   *)
(* function, next is the identifier the next created operation gets.  An   *)
(* erased operation leaves DOMAIN ops and its identifier is never reused,  *)
(* so a handle to an erased operation is recognisable.                     *)
(***************************************************************************)
EXTENDS Integers, Sequences, FiniteSets, Bags, TLC

VARIABLES
  pc,        \* position inside SConvOp::apply / applyTileTo
  target,    \* the payload operation the transform is applied to
  ir,        \* the payload IR
  maps,      \* coefficients of the indexing map built for the input operand
  mK,        \* csa.mK_ : the microkernel shape
  analyzed,  \* the CSAStrategy returned by csa()
  res,       \* the CSAStrategy handed to applyTileTo
  outerTile, \* tiledResults of the first tileUsingSCF call
  tiledOps,  \* applyTileTo's tiledOps vector
  loopOps,   \* applyTileTo's loopOps vector
  atSwap,    \* IR and handle vectors as they were when swapInductionVars was entered
  swapped,   \* LogicalResult of swapInductionVars
  results,   \* transformResults: handles reported to the caller
  status     \* DiagnosedSilenceableFailure returned by apply

vars == <<pc, target, ir, maps, mK, analyzed, res, outerTile, tiledOps,
          loopOps, atSwap, swapped, results, status>>

(***************************************************************************)
(* Bounds of the model.                                                    *)
(***************************************************************************)
MaxOut == 2
MaxFilt == 2
MaxStride == 2
MaxChan == 2
MaxBatch == 1
MaxMK == 2
MaxK == 1
MaxInsertSlice == 2
MaxTrip == 2

(***************************************************************************)
(* Program constants.                                                      *)
(***************************************************************************)
ForcedK2 == 8
ForcedK3 == 2
ForcedTileC == 16

Min(a, b) == IF a < b THEN a ELSE b

Last(s) == s[Len(s)]

Range(s) == {s[i] : i \in 1..Len(s)}

(***************************************************************************)
(* Values of the IR: result of an operation, induction variable or         *)
(* loop-carried argument of a loop, value defined outside the payload.     *)
(***************************************************************************)
Res(id) == <<"res", id>>
IV(id) == <<"iv", id>>
Arg(id) == <<"arg", id>>
Ext(k) == <<"ext", k>>

MkOp(kind, operands) ==
  [kind |-> kind, operands |-> operands, lb |-> 0, ub |-> 0, step |-> 0,
   inits |-> << >>, body |-> << >>, argTensor |-> TRUE]

MkLoop(kind, lb, ub, step, inits, body, argTensor) ==
  [kind |-> kind, operands |-> << >>, lb |-> lb, ub |-> ub, step |-> step,
   inits |-> inits, body |-> body, argTensor |-> argTensor]

(***************************************************************************)
(* IR primitives of the rewriter.                                          *)
(***************************************************************************)
Live(P) == DOMAIN P.ops

IsLoop(P, id) == id \in Live(P) /\ P.ops[id].kind \in {"for", "forall"}

\* The operation whose body holds id, 0 when id is in the function's block.
ParentOf(P, id) ==
  IF \E l \in Live(P) : id \in Range(P.ops[l].body)
  THEN CHOOSE l \in Live(P) : id \in Range(P.ops[l].body)
  ELSE 0

RECURSIVE Encloses(_, _, _)
Encloses(P, a, b) ==
  LET p == ParentOf(P, b) IN
    IF p = 0 THEN FALSE ELSE p = a \/ Encloses(P, a, p)

RECURSIVE Nested(_, _)
\* id and every operation nested in it
Nested(P, id) ==
  IF id \notin Live(P) THEN {}
  ELSE {id} \cup UNION {Nested(P, P.ops[id].body[i]) : i \in 1..Len(P.ops[id].body)}

InsertBeforeSeq(s, anchor, new) ==
  LET k == CHOOSE i \in 1..Len(s) : s[i] = anchor IN
    SubSeq(s, 1, k - 1) \o new \o SubSeq(s, k, Len(s))

RemoveSeq(s, id) == SelectSeq(s, LAMBDA x : x # id)

\* rewriter.create with the insertion point before anchor
InsertBefore(P, anchor, new) ==
  LET p == ParentOf(P, anchor) IN
    IF p = 0
    THEN [P EXCEPT !.top = InsertBeforeSeq(@, anchor, new)]
    ELSE [P EXCEPT !.ops[p].body = InsertBeforeSeq(@, anchor, new)]

\* rewriter.create with the insertion point at the end of loop's body
AppendTo(P, loop, new) == [P EXCEPT !.ops[loop].body = @ \o new]

AddOps(P, f) == [P EXCEPT !.ops = f @@ @, !.next = @ + Cardinality(DOMAIN f)]

SubstSeq(s, old, new) == [i \in 1..Len(s) |-> IF s[i] = old THEN new ELSE s[i]]

\* Value::replaceAllUsesWith
ReplaceAllUsesWith(P, old, new) ==
  [P EXCEPT !.ops = [id \in DOMAIN @ |->
      [@[id] EXCEPT !.operands = SubstSeq(@, old, new),
                    !.inits = SubstSeq(@, old, new)]]]

\* rewriter.eraseOp: the operation and everything nested in it
EraseOp(P, id) ==
  LET gone == Nested(P, id)
      p == ParentOf(P, id)
      Q == IF p = 0 THEN [P EXCEPT !.top = RemoveSeq(@, id)]
           ELSE [P EXCEPT !.ops[p].body = RemoveSeq(@, id)]
  IN [Q EXCEPT !.ops = [x \in DOMAIN @ \ gone |-> @[x]]]

\* rewriter.replaceOp
ReplaceOp(P, id, new) == EraseOp(ReplaceAllUsesWith(P, Res(id), new), id)

(***************************************************************************)
(* Targets.  A target carries what apply reads of the payload operation.   *)
(***************************************************************************)
Shape(n, ic, oc, oh, ow, fh, fw, sh, sw) ==
  [isConv |-> TRUE, filterStatic |-> TRUE, inputStatic |-> TRUE, dilOnes |-> TRUE,
   n |-> n, ic |-> ic, oc |-> oc, oh |-> oh, ow |-> ow, fh |-> fh, fw |-> fw,
   sh |-> sh, sw |-> sw]

\* shapes that vary what the indexing maps depend on
MapTargets ==
  {Shape(1, 1, 1, oh, ow, fh, fw, sh, sw) :
     oh \in 1..MaxOut, ow \in 1..MaxOut, fh \in 1..MaxFilt, fw \in 1..MaxFilt,
     sh \in 1..MaxStride, sw \in 1..MaxStride}

\* shapes that vary what the schedule and the tiling depend on
ScheduleTargets ==
  {Shape(n, ic, oc, oh, ow, 1, 1, 1, 1) :
     n \in 1..MaxBatch, ic \in 1..MaxChan, oc \in 1..MaxChan,
     oh \in 1..MaxOut, ow \in 1..MaxOut}

\* n=1, ic=4, oc=64, oh=ow=16, fh=fw=3, stride 1
EndToEndTarget == Shape(1, 4, 64, 16, 16, 3, 3, 1, 1)

InvalidTargets ==
  {[Shape(1, 1, 1, 1, 1, 1, 1, 1, 1) EXCEPT !.isConv = c, !.filterStatic = f,
                                             !.inputStatic = i, !.dilOnes = d] :
     c \in BOOLEAN, f \in BOOLEAN, i \in BOOLEAN, d \in BOOLEAN}
  \ {Shape(1, 1, 1, 1, 1, 1, 1, 1, 1)}

Targets == MapTargets \cup ScheduleTargets \cup {EndToEndTarget} \cup InvalidTargets

\* The payload before apply: the target (operation 1) and one user of its result.
InitialIR(t) ==
  [ops |-> (1 :> MkOp(IF t.isConv THEN "conv" ELSE "other", <<Ext(1), Ext(2), Ext(3)>>))
           @@ (2 :> MkOp("use", <<Res(1)>>)),
   top |-> <<1, 2>>,
   next |-> 3]

NoDecision == [schd |-> "none", k2 |-> 0, k3 |-> 0, tile_c |-> 0]
NoTile == [tiledOp |-> 0, loops |-> << >>, dom |-> << >>]
NoSnapshot == [ir |-> [ops |-> << >>, top |-> << >>, next |-> 0],
               loopOps |-> << >>, tiledOps |-> << >>]
NoResults == [tiled |-> << >>, loops |-> << >>]

Init ==
  /\ pc = "extract"
  /\ target \in Targets
  /\ ir = InitialIR(target)
  /\ maps = [div |-> 0, hstride |-> 0, wstride |-> 0]
  /\ mK = [num_filters |-> 0, nwindows |-> 0]
  /\ analyzed = NoDecision
  /\ res = NoDecision
  /\ outerTile = NoTile
  /\ tiledOps = << >>
  /\ loopOps = << >>
  /\ atSwap = NoSnapshot
  /\ swapped = "none"
  /\ results = NoResults
  /\ status = "none"

(***************************************************************************)
(* SConvOp::apply, validation (lines 353-378).                             *)
(***************************************************************************)
hasAllOneValues(t) == t.dilOnes

\* Validate without the check of the dilations
ValidateWithoutDilations(t) ==
  IF ~t.isConv THEN "expected a Conv2DNchwFchwOp for transformation"
  ELSE IF ~t.filterStatic THEN "expected a static shape for the filter"
  ELSE IF ~t.inputStatic THEN "expected a static shape for the input"
  ELSE ""

\* the diagnostic apply returns before it touches the payload, "" when none
Validate(t) ==
  IF ~t.isConv THEN "expected a Conv2DNchwFchwOp for transformation"
  ELSE IF ~t.filterStatic THEN "expected a static shape for the filter"
  ELSE IF ~t.inputStatic THEN "expected a static shape for the input"
  ELSE IF ~hasAllOneValues(t) THEN "expected all ones for dilations"
  ELSE ""

Extract ==
  /\ pc = "extract"
  /\ IF Validate(target) # ""
     THEN /\ status' = "silenceable"
          /\ pc' = "done"
     ELSE /\ status' = status
          /\ pc' = "reformulate"
  /\ UNCHANGED <<target, ir, maps, mK, analyzed, res, outerTile, tiledOps,
                 loopOps, atSwap, swapped, results>>

(***************************************************************************)
(* SConvOp::apply, reformulation as a reduction (lines 391-431).           *)
(***************************************************************************)
\* iteration domain of the generic op: d0..d5
IterDomain(t) == <<t.n, t.oc, t.oh * t.ow, t.ic, t.fh, t.fw>>

\* lhsMap: {d0, d3, d2.floorDiv(oh) * hstride + d4, d2 % oh * wstride + d5}
BuildLhsMap(t) == [div |-> t.oh, hstride |-> t.sh, wstride |-> t.sw]

lhsMap(m, d) ==
  <<d[1], d[4], (d[3] \div m.div) * m.hstride + d[5], (d[3] % m.div) * m.wstride + d[6]>>
rhsMap(d) == <<d[2], d[4], d[5], d[6]>>
resultMap(d) == <<d[1], d[2], d[3]>>

\* tensor.collapse_shape with reassociation {{0},{1},{2,3}}: row-major flattening
CollapseIndex(t, idx) == <<idx[1], idx[2], idx[3] * t.ow + idx[4]>>

Reformulate ==
  /\ pc = "reformulate"
  /\ LET conv == 1
         a == ir.next
         b == ir.next + 1
         c == ir.next + 2
         P1 == InsertBefore(AddOps(ir, a :> MkOp("collapse_shape", <<ir.ops[conv].operands[3]>>)),
                            conv, <<a>>)
         P2 == InsertBefore(AddOps(P1, b :> MkOp("generic",
                              <<ir.ops[conv].operands[1], ir.ops[conv].operands[2], Res(a)>>)),
                            conv, <<b>>)
         P3 == InsertBefore(AddOps(P2, c :> MkOp("expand_shape", <<Res(b)>>)), conv, <<c>>)
     IN ir' = ReplaceOp(P3, conv, Res(c))
  /\ maps' = BuildLhsMap(target)
  /\ pc' = "analyze"
  /\ UNCHANGED <<target, mK, analyzed, res, outerTile, tiledOps, loopOps,
                 atSwap, swapped, results, status>>

(***************************************************************************)
(* The schedule analysis (CSA.h: createCSAPass, CSA::operator(), mK_).     *)
(* It returns a microkernel shape with 1 <= num_filters <= oc and          *)
(* 1 <= nwindows <= oh*ow, and a decision with k2, k3 >= 1 and             *)
(* 1 <= tile_c <= ic.                                                      *)
(***************************************************************************)
CSAMicrokernels(t) ==
  {[num_filters |-> f, nwindows |-> w] :
     f \in 1..Min(t.oc, MaxMK), w \in 1..Min(t.oh * t.ow, MaxMK)}

CSADecisions(t) ==
  {[schd |-> s, k2 |-> k2, k3 |-> k3, tile_c |-> c] :
     s \in {"IS", "WS"}, k2 \in 1..MaxK, k3 \in 1..MaxK, c \in 1..t.ic}

(***************************************************************************)
(* SConvOp::apply, lines 433-440: the analysis and the assignment that     *)
(* follows it.                                                             *)
(***************************************************************************)
ForcedDecision(d) ==
  [schd |-> "IS", k2 |-> ForcedK2, k3 |-> ForcedK3, tile_c |-> ForcedTileC]

Analyze ==
  /\ pc = "analyze"
  /\ \E m \in CSAMicrokernels(target), d \in CSADecisions(target) :
       /\ mK' = m
       /\ analyzed' = d
       /\ res' = ForcedDecision(d)
  /\ pc' = "tileOuter"
  /\ UNCHANGED <<target, ir, maps, outerTile, tiledOps, loopOps, atSwap,
                 swapped, results, status>>

(***************************************************************************)
(* scf::tileUsingSCF with LoopType::ForOp, as applyTileTo calls it: one    *)
(* scf.for per dimension of the interchanged iteration domain whose tile   *)
(* size is not 0, outermost first; the innermost body extracts the operand *)
(* slices, runs the tiled op and inserts its result into the loop-carried  *)
(* destination; every loop carries the destination and yields it.          *)
(***************************************************************************)
fillInterchangeVector(iv, n) ==
  iv \o SelectSeq([d \in 1..n |-> d], LAMBDA d : d \notin Range(iv))

\* dimensions the indexing maps of the operands mention, in map order
InputDims == <<1, 4, 3, 5, 6>>
FilterDims == <<2, 4, 5, 6>>
OutputDims == <<1, 2, 3>>

TiledLoopDims(tileSize, interchange) ==
  SelectSeq(fillInterchangeVector(interchange, Len(tileSize)),
            LAMBDA d : tileSize[d] # 0)

\* domain of the tiled op inside the loops (extent of a full first tile)
TiledDomain(dom, tileSize) ==
  [d \in 1..Len(dom) |-> IF tileSize[d] = 0 THEN dom[d] ELSE Min(tileSize[d], dom[d])]

tileUsingSCF(P, op, dom, tileSize, interchange) ==
  LET dims == TiledLoopDims(tileSize, interchange)
      k == Len(dims)
      L(i) == P.next + i - 1
      base == P.next + k
      exIn == base
      exF == base + 1
      exAcc == base + 2
      gen == base + 3
      ins == base + 4
      yld == base + 5
      outerYield(i) == base + 5 + i
      LoopOf(d) == L(CHOOSE i \in 1..k : dims[i] = d)
      Offsets(ds) ==
        LET looped == SelectSeq(ds, LAMBDA d : d \in Range(dims))
        IN [i \in 1..Len(looped) |-> IV(LoopOf(looped[i]))]
      src == P.ops[op].operands
      bodyOps ==
        (exIn :> MkOp("extract_slice", <<src[1]>> \o Offsets(InputDims)))
        @@ (exF :> MkOp("extract_slice", <<src[2]>> \o Offsets(FilterDims)))
        @@ (exAcc :> MkOp("extract_slice", <<Arg(L(k))>> \o Offsets(OutputDims)))
        @@ (gen :> MkOp("generic", <<Res(exIn), Res(exF), Res(exAcc)>>))
        @@ (ins :> MkOp("insert_slice", <<Res(gen), Arg(L(k))>> \o Offsets(OutputDims)))
        @@ (yld :> MkOp("yield", <<Res(ins)>>))
      loopOp(i) ==
        MkLoop("for", 0, dom[dims[i]], tileSize[dims[i]],
               <<IF i = 1 THEN src[3] ELSE Arg(L(i - 1))>>,
               IF i = k THEN <<exIn, exF, exAcc, gen, ins, yld>>
               ELSE <<L(i + 1), outerYield(i)>>,
               TRUE)
      created ==
        bodyOps
        @@ [id \in {L(i) : i \in 1..k} |-> loopOp(id - P.next + 1)]
        @@ [id \in {outerYield(i) : i \in 1..(k - 1)} |->
              MkOp("yield", <<Res(L(id - base - 5 + 1))>>)]
  IN IF k = 0
     THEN [ir |-> P, tiledOp |-> op, loops |-> << >>, replacement |-> Res(op),
           dom |-> dom]
     ELSE [ir |-> InsertBefore(AddOps(P, created), op, <<L(1)>>),
           tiledOp |-> gen,
           loops |-> [i \in 1..k |-> L(i)],
           replacement |-> Res(L(1)),
           dom |-> TiledDomain(dom, tileSize)]

\* dyn_cast<TilingInterface>
IsTilingInterface(P, id) == id \in Live(P) /\ P.ops[id].kind = "generic"

\* the generic op apply created
GenericOp(P) == CHOOSE id \in Range(P.top) : P.ops[id].kind = "generic"

(***************************************************************************)
(* applyTileTo, lines 263-296: the outer tiling pass.                      *)
(***************************************************************************)
\* OuterTileSize with the batch dimension left untiled
OuterTileSizeBatchUntiled(m, r) ==
  <<0,
    m.num_filters * (IF r.schd = "IS" THEN r.k2 ELSE r.k3),
    m.nwindows * (IF r.schd = "IS" THEN r.k3 ELSE r.k2),
    r.tile_c, 0, 0>>

OuterTileSize(m, r) ==
  <<1,
    m.num_filters * (IF r.schd = "IS" THEN r.k2 ELSE r.k3),
    m.nwindows * (IF r.schd = "IS" THEN r.k3 ELSE r.k2),
    r.tile_c, 0, 0>>

OuterInterchange(r) ==
  <<1, 4, IF r.schd = "IS" THEN 3 ELSE 2, IF r.schd = "IS" THEN 2 ELSE 3>>

TileOuter ==
  /\ pc = "tileOuter"
  /\ \E tiled \in BOOLEAN :
       LET g == GenericOp(ir)
           T == tileUsingSCF(ir, g, IterDomain(target), OuterTileSize(mK, res),
                             OuterInterchange(res))
       IN IF ~IsTilingInterface(ir, g) \/ ~tiled
          THEN /\ status' = "definite"
               /\ pc' = "done"
               /\ UNCHANGED <<ir, outerTile>>
          ELSE /\ ir' = ReplaceOp(T.ir, g, T.replacement)
               /\ outerTile' = [tiledOp |-> T.tiledOp, loops |-> T.loops, dom |-> T.dom]
               /\ pc' = "tileInner"
               /\ status' = status
  /\ UNCHANGED <<target, maps, mK, analyzed, res, tiledOps, loopOps, atSwap,
                 swapped, results>>

(***************************************************************************)
(* applyTileTo, lines 298-326: the inner tiling pass and the handle        *)
(* vectors.                                                                *)
(***************************************************************************)
InnerTileSize(m) == <<0, m.num_filters, m.nwindows, 0, 0, 0>>

InnerInterchange(r) ==
  <<IF r.schd = "IS" THEN 2 ELSE 1, IF r.schd = "IS" THEN 1 ELSE 2>>

\* CollectLoops with the loops of the outer pass pushed first
CollectLoopsOuterFirst(innerLoops, outerLoops) == outerLoops \o innerLoops

\* lines 323-326: the loops of the inner pass, then the loops of the outer pass
CollectLoops(innerLoops, outerLoops) == innerLoops \o outerLoops

TileInner ==
  /\ pc = "tileInner"
  /\ \E tiled \in BOOLEAN :
       LET innerOp == outerTile.tiledOp
           T == tileUsingSCF(ir, innerOp, outerTile.dom, InnerTileSize(mK),
                             InnerInterchange(res))
       IN IF ~IsTilingInterface(ir, innerOp) \/ ~tiled
          THEN /\ status' = "definite"
               /\ pc' = "done"
               /\ UNCHANGED <<ir, tiledOps, loopOps>>
          ELSE /\ ir' = ReplaceOp(T.ir, innerOp, T.replacement)
               /\ tiledOps' = <<T.tiledOp>>
               /\ loopOps' = CollectLoops(T.loops, outerTile.loops)
               /\ pc' = "swap"
               /\ status' = status
  /\ UNCHANGED <<target, maps, mK, analyzed, res, outerTile, atSwap, swapped,
                 results>>

(***************************************************************************)
(* swapInductionVars (lines 134-251).                                      *)
(***************************************************************************)
\* IRMapping::lookupOrDefault
Lookup(m, v) == IF v \in DOMAIN m THEN m[v] ELSE v

MapSeq(m, s) == [i \in 1..Len(s) |-> Lookup(m, s[i])]

\* rewriter.clone(op, mapping) for each operation of srcs, in order; the results
\* of every clone are mapped before the next operation is cloned
RECURSIVE CloneOps(_, _, _, _)
CloneOps(P, m, srcs, done) ==
  IF srcs = << >> THEN [ir |-> P, map |-> m, clones |-> done]
  ELSE LET old == Head(srcs)
           new == P.next
           rec == [P.ops[old] EXCEPT !.operands = MapSeq(m, @), !.inits = MapSeq(m, @)]
       IN CloneOps(AddOps(P, new :> rec), (Res(old) :> Res(new)) @@ m,
                   Tail(srcs), Append(done, new))

\* LookupInsertSlice that keeps the first tensor.insert_slice it meets
LookupFirstInsertSlice(P, loop) ==
  LET found == SelectSeq(P.ops[loop].body, LAMBDA id : P.ops[id].kind = "insert_slice")
  IN IF Len(found) = 0
     THEN [op |-> 0,
           err |-> "No tensor.insert_slice operation found in the innerLoop body"]
     ELSE [op |-> found[1], err |-> ""]

\* lines 181-191: the tensor.insert_slice of the new inner loop's body
LookupInsertSlice(P, loop) ==
  LET found == SelectSeq(P.ops[loop].body, LAMBDA id : P.ops[id].kind = "insert_slice")
  IN IF Len(found) > 1
     THEN [op |-> 0,
           err |-> "Multiple tensor.insert_slice operations found in the innerLoop body"]
     ELSE IF Len(found) = 0
     THEN [op |-> 0,
           err |-> "No tensor.insert_slice operation found in the innerLoop body"]
     ELSE [op |-> found[1], err |-> ""]

\* line 208: the terminator of the new inner loop
InnerYield(yieldedInput, yieldedFilter) == MkOp("yield", <<yieldedInput, yieldedFilter>>)

\* lines 243-245
UpdateLoops(loops, newOuterLoop, newInnerLoop) ==
  [loops EXCEPT ![1] = newOuterLoop, ![2] = newInnerLoop]

swapInductionVars(P, r, tiledOpsArg, loopOpsArg) ==
  LET unchanged(ok, diag) ==
        [ok |-> ok, diag |-> diag, ir |-> P, tiledOps |-> tiledOpsArg,
         loopOps |-> loopOpsArg]
      outerLoop == loopOpsArg[1]
      innerLoop == loopOpsArg[2]
  IN
  IF r.schd # "IS" THEN unchanged("success", "")
  ELSE IF P.ops[outerLoop].kind # "for" \/ P.ops[innerLoop].kind # "for"
  THEN unchanged("failure", "Loops must be scf.for")
  ELSE
    LET outer == P.ops[outerLoop]
        inner == P.ops[innerLoop]
        newOuterLoop == P.next
        newInnerLoop == P.next + 1
        \* lines 145-155
        P1 == InsertBefore(
                AddOps(P, newOuterLoop :>
                  MkLoop("for", inner.lb, inner.ub, inner.step, outer.inits,
                         << >>, outer.argTensor)),
                outerLoop, <<newOuterLoop>>)
        P2 == AppendTo(
                AddOps(P1, newInnerLoop :>
                  MkLoop("for", outer.lb, outer.ub, outer.step,
                         [i \in 1..Len(outer.inits) |-> Arg(newOuterLoop)],
                         << >>, outer.argTensor)),
                newOuterLoop, <<newInnerLoop>>)
        \* lines 157-168
        mapping == (IV(outerLoop) :> IV(newInnerLoop))
                   @@ (IV(innerLoop) :> IV(newOuterLoop))
                   @@ (Arg(outerLoop) :> Arg(newOuterLoop))
                   @@ (Arg(innerLoop) :> Arg(newInnerLoop))
        \* lines 170-179
        C1 == CloneOps(P2, mapping,
                       SelectSeq(inner.body, LAMBDA id : P.ops[id].kind # "yield"),
                       << >>)
        P3 == AppendTo(C1.ir, newInnerLoop, C1.clones)
        halfway(diag) ==
          [ok |-> "failure", diag |-> diag, ir |-> P3, tiledOps |-> tiledOpsArg,
           loopOps |-> loopOpsArg]
        insertSliceOp == LookupInsertSlice(P3, newInnerLoop)
    IN
    IF insertSliceOp.err # "" THEN halfway(insertSliceOp.err)
    ELSE
      LET yieldedFilter == Res(insertSliceOp.op)
          yieldedInput == Lookup(C1.map, Arg(innerLoop))
          \* the type of the new inner loop's carried argument is the type of
          \* the old outer loop's initial argument
          yieldedInputShaped == P3.ops[newInnerLoop].argTensor
      IN
      IF ~yieldedInputShaped
      THEN halfway("Invalid or missing InputType in scf.yield")
      ELSE
        LET y1 == P3.next
            P4 == AppendTo(AddOps(P3, y1 :> InnerYield(yieldedInput, yieldedFilter)),
                           newInnerLoop, <<y1>>)
            \* lines 210-219
            C2 == CloneOps(P4, C1.map,
                           SelectSeq(outer.body,
                                     LAMBDA id : id # innerLoop /\ P.ops[id].kind # "yield"),
                           << >>)
            P5 == [C2.ir EXCEPT !.ops[newOuterLoop].body = C2.clones \o @]
            \* lines 221-224
            y2 == P5.next
            P6 == AppendTo(AddOps(P5, y2 :> MkOp("yield", <<Res(newInnerLoop)>>)),
                           newOuterLoop, <<y2>>)
            \* lines 229-238
            P7 == ReplaceAllUsesWith(P6, Res(innerLoop), Res(newInnerLoop))
            P8 == ReplaceAllUsesWith(P7, Res(outerLoop), Res(newOuterLoop))
            P9 == EraseOp(EraseOp(P8, innerLoop), outerLoop)
            \* line 241
            generics == SelectSeq(P9.ops[newInnerLoop].body,
                                  LAMBDA id : P9.ops[id].kind = "generic")
        IN [ok |-> "success", diag |-> "", ir |-> P9,
            tiledOps |-> [tiledOpsArg EXCEPT ![1] = generics[1]],
            loopOps |-> UpdateLoops(loopOpsArg, newOuterLoop, newInnerLoop)]

(***************************************************************************)
(* applyTileTo, lines 328-330.  tiledOps is passed by value, loopOps by    *)
(* reference: of what swapInductionVars assigns, only loopOps reaches the  *)
(* caller.                                                                 *)
(***************************************************************************)
Swap ==
  /\ pc = "swap"
  /\ LET R == swapInductionVars(ir, res, tiledOps, loopOps)
     IN /\ ir' = R.ir
        /\ loopOps' = R.loopOps
        /\ swapped' = R.ok
        /\ IF R.ok = "failure"
           THEN /\ status' = "definite"
                /\ pc' = "done"
           ELSE /\ status' = status
                /\ pc' = "report"
  /\ atSwap' = [ir |-> ir, loopOps |-> loopOps, tiledOps |-> tiledOps]
  /\ UNCHANGED <<target, maps, mK, analyzed, res, outerTile, tiledOps, results>>

(***************************************************************************)
(* applyTileTo, lines 332-336, and the return of apply (lines 445-446).    *)
(***************************************************************************)
Report ==
  /\ pc = "report"
  /\ results' = [tiled |-> tiledOps, loops |-> loopOps]
  /\ status' = "success"
  /\ pc' = "done"
  /\ UNCHANGED <<target, ir, maps, mK, analyzed, res, outerTile, tiledOps,
                 loopOps, atSwap, swapped>>

Next == Extract \/ Reformulate \/ Analyze \/ TileOuter \/ TileInner \/ Swap \/ Report

Spec == Init /\ [][Next]_vars

(***************************************************************************)
(* swapInductionVars on its own: called on every pair of nested loops of   *)
(* the shape tileUsingSCF builds, with either schedule, loops that are or  *)
(* are not scf.for, any number of tensor.insert_slice operations in the    *)
(* inner body and a carried value that is or is not a tensor.              *)
(***************************************************************************)
LoopKinds == {"for", "forall"}

\* the inner body with n tensor.insert_slice operations chained on the carried value
WithInsertSlices(P, inner, n) ==
  LET body == P.ops[inner].body
      ins == CHOOSE id \in Range(body) : P.ops[id].kind = "insert_slice"
      yld == CHOOSE id \in Range(body) : P.ops[id].kind = "yield"
      extra(i) == P.next + i - 2
      insId(i) == IF i = 1 THEN ins ELSE extra(i)
      more == [id \in {extra(i) : i \in 2..n} |->
                 [P.ops[ins] EXCEPT !.operands[2] = Res(insId(id - P.next + 2 - 1))]]
  IN IF n = 0
     THEN LET Q == EraseOp(P, ins)
          IN [Q EXCEPT !.ops[yld].operands = <<Arg(inner)>>]
     ELSE LET Q == AddOps(P, more)
          IN [Q EXCEPT !.ops[yld].operands = <<Res(insId(n))>>,
                       !.ops[inner].body =
                          SubSeq(body, 1, Len(body) - 1)
                          \o [i \in 1..(n - 1) |-> extra(i + 1)] \o <<yld>>]

SwapNest(ef, ew, nf, nw, ko, ki, n, tensor) ==
  LET P0 == [ops |-> (1 :> MkOp("generic", <<Ext(1), Ext(2), Ext(3)>>))
                     @@ (2 :> MkOp("use", <<Res(1)>>)),
             top |-> <<1, 2>>, next |-> 3]
      T == tileUsingSCF(P0, 1, <<1, ef, ew, 1, 1, 1>>, <<0, nf, nw, 0, 0, 0>>, <<2, 1>>)
      P1 == ReplaceOp(T.ir, 1, T.replacement)
      P2 == WithInsertSlices(P1, T.loops[2], n)
      P3 == [P2 EXCEPT !.ops[T.loops[1]].kind = ko, !.ops[T.loops[1]].argTensor = tensor,
                       !.ops[T.loops[2]].kind = ki, !.ops[T.loops[2]].argTensor = tensor]
  IN [ir |-> P3, tiledOps |-> <<T.tiledOp>>, loopOps |-> T.loops]

InitSwap ==
  /\ pc = "swap"
  /\ target = Shape(1, 1, 1, 1, 1, 1, 1, 1, 1)
  /\ maps = BuildLhsMap(target)
  /\ \E ef \in 1..MaxTrip, ew \in 1..MaxTrip, nf \in 1..MaxMK, nw \in 1..MaxMK,
        ko \in LoopKinds, ki \in LoopKinds, n \in 0..MaxInsertSlice,
        tensor \in BOOLEAN, schd \in {"IS", "WS"} :
       LET N == SwapNest(ef, ew, nf, nw, ko, ki, n, tensor)
       IN /\ ir = N.ir
          /\ tiledOps = N.tiledOps
          /\ loopOps = N.loopOps
          /\ mK = [num_filters |-> nf, nwindows |-> nw]
          /\ res = [schd |-> schd, k2 |-> 1, k3 |-> 1, tile_c |-> 1]
  /\ analyzed = res
  /\ outerTile = NoTile
  /\ atSwap = NoSnapshot
  /\ swapped = "none"
  /\ results = NoResults
  /\ status = "none"

NextSwap == Swap \/ Report

SpecSwap == InitSwap /\ [][NextSwap]_vars

(***************************************************************************)
(* apply from its entry together with swapInductionVars on its own, so     *)
(* that every failure applyTileTo can return is reached.                   *)
(***************************************************************************)
InitAll == Init \/ InitSwap

SpecAll == InitAll /\ [][Next]_vars

(***************************************************************************)
(* What a loop nest computes.  A tensor is the bag of the tiles written    *)
(* into it; a tile is named by the offsets it was inserted at and the      *)
(* offsets of the slices it was computed from.  An scf.for hands operand i *)
(* of its terminator to carried argument i of the next iteration, and its  *)
(* result i is the last such value.                                        *)
(***************************************************************************)
IndexVal(env, v) == IF v \in DOMAIN env THEN env[v] ELSE 0
SliceVal(env, v) == IF v \in DOMAIN env THEN env[v] ELSE << >>
TensorVal(env, v) == IF v \in DOMAIN env THEN env[v] ELSE EmptyBag

Offsets(env, operands, from) ==
  [i \in 1..(Len(operands) - from + 1) |-> IndexVal(env, operands[i + from - 1])]

RECURSIVE RunBlock(_, _, _)
RECURSIVE RunLoop(_, _, _, _, _)

ExecOp(P, id, env) ==
  LET op == P.ops[id] IN
    CASE op.kind = "extract_slice" ->
           (Res(id) :> Offsets(env, op.operands, 2)) @@ env
      [] op.kind = "generic" ->
           (Res(id) :> SliceVal(env, op.operands[1]) \o SliceVal(env, op.operands[2])
                       \o SliceVal(env, op.operands[3])) @@ env
      [] op.kind = "insert_slice" ->
           (Res(id) :> TensorVal(env, op.operands[2])
                       (+) SetToBag({<<Offsets(env, op.operands, 3),
                                       SliceVal(env, op.operands[1])>>})) @@ env
      [] op.kind = "for" ->
           (Res(id) :> RunLoop(P, id, env, op.lb, TensorVal(env, op.inits[1]))) @@ env
      [] OTHER -> env

RunBlock(P, ids, env) ==
  IF ids = << >> THEN env ELSE RunBlock(P, Tail(ids), ExecOp(P, Head(ids), env))

RunLoop(P, id, env, i, acc) ==
  LET op == P.ops[id] IN
    IF i >= op.ub THEN acc
    ELSE LET env1 == (IV(id) :> i) @@ (Arg(id) :> acc) @@ env
             env2 == RunBlock(P, op.body, env1)
             yld == P.ops[Last(op.body)]
         IN RunLoop(P, id, env, i + op.step, TensorVal(env2, yld.operands[1]))

\* the value of result 0 of loop when its initial argument is init
EvalLoop(P, loop, init) == RunLoop(P, loop, << >>, P.ops[loop].lb, init)

InitAccumulators == {EmptyBag, SetToBag({<<<<0, 0>>, <<0, 0, 0, 0>>>>})}

(***************************************************************************)
(* Properties.                                                             *)
(***************************************************************************)
Invalid(t) == ~t.isConv \/ ~t.filterStatic \/ ~t.inputStatic \/ ~t.dilOnes

Reformulated == pc = "analyze"

Tiled == pc \in {"swap", "report"} \/ (pc = "done" /\ swapped # "none")

Succeeded == pc = "done" /\ status = "success"

CountKind(P, loop, kind) ==
  Len(SelectSeq(P.ops[loop].body, LAMBDA id : P.ops[id].kind = kind))

\* C1: at every iteration point of the reduction built by apply, the input
\* operand is read at (d0, d3, floor(d2/ow)*sh + d4, (d2 mod ow)*sw + d5), the
\* filter at (d1, d3, d4, d5) and the output at (d0, d1, d2); with d2 the
\* flattened position of output element (y, x), that is the input element
\* (d0, d3, y*sh + d4, x*sw + d5) direct convolution reads.
C1_ReductionReadsConvolutionElements ==
  Reformulated =>
    \A b \in 0..(target.n - 1), f \in 0..(target.oc - 1),
       y \in 0..(target.oh - 1), x \in 0..(target.ow - 1),
       c \in 0..(target.ic - 1), kh \in 0..(target.fh - 1), kw \in 0..(target.fw - 1) :
      LET d2 == CollapseIndex(target, <<b, f, y, x>>)[3]
          d == <<b, f, d2, c, kh, kw>>
      IN /\ lhsMap(maps, d) = <<b, c, (d2 \div target.ow) * target.sh + kh,
                                (d2 % target.ow) * target.sw + kw>>
         /\ lhsMap(maps, d) = <<b, c, y * target.sh + kh, x * target.sw + kw>>
         /\ rhsMap(d) = <<f, c, kh, kw>>
         /\ resultMap(d) = <<b, f, d2>>

\* C2: after a successful swap the new outer loop produces, for every initial
\* accumulator, the value the original outer loop produced.
C2_SwapPreservesLoopResult ==
  (swapped = "success" /\ res.schd = "IS") =>
    \A init \in InitAccumulators :
      EvalLoop(ir, loopOps[1], init) = EvalLoop(atSwap.ir, atSwap.loopOps[1], init)

\* C3: after a successful Input-Stationary run the reported microkernel handle
\* is the microkernel operation in the body of the new inner loop, and every
\* reported handle refers to a live operation.
C3_ReportedHandlesAreLive ==
  (Succeeded /\ res.schd = "IS") =>
    /\ results.tiled[1] \in Live(ir)
    /\ ir.ops[results.tiled[1]].kind = "generic"
    /\ ParentOf(ir, results.tiled[1]) = results.loops[2]
    /\ \A i \in 1..Len(results.loops) : results.loops[i] \in Live(ir)

\* C4: whenever swapInductionVars fails, the program is exactly as it was when
\* the swap started.
C4_FailedSwapLeavesProgramUntouched ==
  swapped = "failure" => (ir.ops = atSwap.ir.ops /\ ir.top = atSwap.ir.top)

\* C5: a target that is not the expected convolution, has a non-static filter
\* or input shape or a dilation that is not all ones makes apply return a
\* silenceable error with the payload untouched and nothing reported; every
\* other failure of apply is a definite failure.
C5_ValidationFailsBeforeMutation ==
  /\ (Invalid(target) /\ pc # "extract") =>
       (pc = "done" /\ status = "silenceable" /\ ir = InitialIR(target)
        /\ results = NoResults)
  /\ status = "silenceable" => Invalid(target)
  /\ (pc = "done" /\ ~Invalid(target) /\ status # "success") => status = "definite"

C5_Witness ==
  /\ pc = "done" /\ status = "silenceable" /\ ir = InitialIR(target)
  /\ target.isConv /\ target.filterStatic /\ target.inputStatic /\ ~target.dilOnes

InnermostFirst(P, loops) ==
  /\ \A l \in Live(P) : IsLoop(P, l) => ~Encloses(P, loops[1], l)
  /\ \A i \in 1..(Len(loops) - 1) : Encloses(P, loops[i + 1], loops[i])

PassOrder(P, loops, nInner) ==
  /\ \A i \in 1..Len(loops) : IsLoop(P, loops[i])
  /\ \A i \in 1..Len(loops), j \in 1..Len(loops) :
       (i < j /\ ((i <= nInner) = (j <= nInner))) => Encloses(P, loops[i], loops[j])
  /\ \A i \in 1..Len(loops), j \in 1..Len(loops) :
       (i > nInner /\ j <= nInner) => Encloses(P, loops[i], loops[j])
  /\ \A l \in Live(P) : IsLoop(P, l) => ~Encloses(P, loops[nInner], l)

EndToEnd == target = EndToEndTarget /\ res = ForcedDecision(analyzed)

\* C7 as stated: for the end-to-end shape and the forced decision each tiling
\* pass produces two loops, four loops are recorded before the swap, and the
\* swap leaves the number unchanged.
C7_FourLoopsBeforeSwap ==
  (EndToEnd /\ Tiled) =>
    /\ Len(outerTile.loops) = 2
    /\ Len(atSwap.loopOps) \in {0, 4}
    /\ Len(loopOps) = 4

NonZero(tileSize) == {d \in 1..Len(tileSize) : tileSize[d] # 0}

\* C7 amended: for the end-to-end shape and the forced decision every axis
\* with a non-zero tile size gets one loop and an axis with tile size 0 none,
\* so the outer pass (tile sizes 1, oc-tile, window-tile, tileC, 0, 0)
\* produces four loops and the inner pass two; six loops are recorded before
\* the swap, and the swap leaves the number unchanged.
C7_SixLoopsBeforeAndAfterSwap ==
  /\ (EndToEnd /\ pc \in {"tileInner", "swap", "report"}) =>
       (Len(outerTile.loops) = 4
        /\ Len(outerTile.loops) = Cardinality(NonZero(<<1, mK.num_filters * res.k2,
                                       mK.nwindows * res.k3, res.tile_c, 0, 0>>)))
  /\ (EndToEnd /\ Tiled) =>
       /\ Len(loopOps) - Len(outerTile.loops) = 2
       /\ Cardinality(NonZero(InnerTileSize(mK))) = 2
       /\ Len(loopOps) = 6
       /\ \A i \in 1..6 : IsLoop(ir, loopOps[i])
       /\ Cardinality(Range(loopOps)) = 6
       /\ (swapped # "none" => Len(atSwap.loopOps) = 6)
  /\ (EndToEnd /\ Succeeded) => Len(results.loops) = 6

C7_Witness ==
  /\ EndToEnd /\ Succeeded /\ swapped = "success"
  /\ Len(atSwap.loopOps) = 6 /\ Len(results.loops) = 6
  /\ atSwap.loopOps # results.loops

\* C8: the decision handed to applyTileTo is the decision the analyzer
\* returned, field by field.
C8_DecisionIsAnalyzerOutput ==
  res # NoDecision =>
    /\ res.schd = analyzed.schd
    /\ res.k2 = analyzed.k2
    /\ res.k3 = analyzed.k3
    /\ res.tile_c = analyzed.tile_c

\* C9: the channel tile size applyTileTo uses as the outer tile size of the
\* input-channel dimension is between 1 and ic, and k2 and k3 are at least 1.
C9_ChannelTileWithinChannels ==
  res # NoDecision =>
    /\ 1 <= OuterTileSize(mK, res)[4]
    /\ OuterTileSize(mK, res)[4] <= target.ic
    /\ res.k2 >= 1
    /\ res.k3 >= 1

\* the loop swapInductionVars created as the new inner loop, 0 when it created none
ClonedInnerLoop ==
  IF atSwap.ir.next + 1 \in Live(ir) /\ atSwap.ir.next + 1 \notin Live(atSwap.ir)
  THEN atSwap.ir.next + 1 ELSE 0

OldLoopsIntact ==
  \A i \in 1..2 : /\ atSwap.loopOps[i] \in Live(ir)
                  /\ ir.ops[atSwap.loopOps[i]] = atSwap.ir.ops[atSwap.loopOps[i]]

\* C10: for Input Stationary, swapInductionVars succeeds only if the cloned
\* inner body holds exactly one tensor.insert_slice; with none or several it
\* fails, the old loops are not erased and the loop-handle list is not
\* updated; for Weight Stationary it succeeds and changes neither the program
\* nor the handle lists.
C10_ExactlyOneInsertSlice ==
  swapped # "none" =>
    /\ (res.schd = "IS" /\ swapped = "success") =>
         (ClonedInnerLoop # 0 /\ CountKind(ir, ClonedInnerLoop, "insert_slice") = 1)
    /\ (res.schd = "IS" /\ ClonedInnerLoop # 0
        /\ CountKind(ir, ClonedInnerLoop, "insert_slice") # 1) =>
         (swapped = "failure" /\ OldLoopsIntact /\ loopOps = atSwap.loopOps)
    /\ (res.schd = "IS"
        /\ CountKind(atSwap.ir, atSwap.loopOps[2], "insert_slice") # 1) =>
         (swapped = "failure" /\ OldLoopsIntact /\ loopOps = atSwap.loopOps)
    /\ res.schd = "WS" =>
         (swapped = "success" /\ ir = atSwap.ir /\ loopOps = atSwap.loopOps
          /\ tiledOps = atSwap.tiledOps)

C10_Witness ==
  /\ res.schd = "IS" /\ swapped = "failure"
  /\ ClonedInnerLoop # 0
  /\ CountKind(ir, ClonedInnerLoop, "insert_slice") = 2
  /\ OldLoopsIntact /\ loopOps = atSwap.loopOps

\* the terminator of loop's body
TerminatorOf(P, loop) == P.ops[Last(P.ops[loop].body)]

\* loop's terminator yields one value per carried argument, and none of them
\* is the carried-in argument itself
WellFormedLoop(P, loop) ==
  /\ P.ops[loop].kind = "for"
  /\ P.ops[loop].body # << >>
  /\ TerminatorOf(P, loop).kind = "yield"
  /\ Len(TerminatorOf(P, loop).operands) = Len(P.ops[loop].inits)
  /\ \A k \in 1..Len(TerminatorOf(P, loop).operands) :
       TerminatorOf(P, loop).operands[k] # Arg(loop)

\* C11: after a successful swap the new inner loop has as many carried
\* arguments as the old outer loop had initial arguments, the terminator of
\* each new loop yields exactly as many values as the loop has carried
\* arguments, and the value yielded for result i is the accumulator updated by
\* the body, not the unmodified carried-in argument.
C11_NewLoopsWellFormed ==
  (swapped = "success" /\ res.schd = "IS") =>
    /\ Len(ir.ops[loopOps[2]].inits) = Len(atSwap.ir.ops[atSwap.loopOps[1]].inits)
    /\ WellFormedLoop(ir, loopOps[1])
    /\ WellFormedLoop(ir, loopOps[2])
====
